---- MODULE Spec2Model ----
(***************************************************************************)
(* A model of the YouTube playlist collector of src/app.py: the paginated  *)
(* fetch of playlist items, the batched fetch of video details, the        *)
(* normalisation of the detail records into rows, and the CSV sink, as     *)
(* driven by main().  The YouTube API is the environment: every request    *)
(* draws its response (a page, an empty response, an HTTP error) from a    *)
(* small set.  The dashboard of src/dashboard.py follows: the load of the  *)
(* CSV file with its derived columns, the refresh of the session data, the *)
(* memoized filter and the callbacks that work on its result.              *)
(***************************************************************************)
EXTENDS Integers, Sequences, FiniteSets, TLC

VARIABLES
    apiKey,           \* whether YOUTUBE_API_KEY is set in the environment
    playlistId,       \* whether PLAYLIST_ID is set in the environment
    pc,               \* position of the run: "load", "init", "construct", "fetch",
                      \* "ids", "details", "check", "process", "save"; "init_wait",
                      \* "fetch_wait", "details_wait" while the retry guard waits
                      \* after a raise; "done", "returned" (early return of main),
                      \* "failed"
    attempt,          \* attempt number of the guarded call in progress
    initLog,          \* what build() did in each attempt of _inicializar_servico
    next_page_token,  \* coletar_videos_playlist: 0 models None
    page_count,       \* coletar_videos_playlist: pages requested by this attempt
    videos,           \* coletar_videos_playlist: accumulated playlist items
    pageLog,          \* the responses the API delivered to this attempt
    playlist_items,   \* main: the list coletar_videos_playlist returned
    partial,          \* whether an error cut short the fetch that returned it
    dropped,          \* whether an attempt of the fetch in progress raised while
                      \* it held items
    video_ids,        \* main: ids extracted from the playlist items
    i,                \* obter_detalhes_videos: offset of the chunk in progress
    details,          \* obter_detalhes_videos: accumulated detail records
    chunkLog,         \* the chunk requests of this attempt and their responses
    video_details,    \* main: the list obter_detalhes_videos returned
    df,               \* self.df: the normalised rows
    dfSet,            \* whether self.df is not None
    sink,             \* the CSV file: whether this run wrote it, and its rows
    now,              \* the clock, in seconds, of a caller of a rate-guarded method
    num_calls,        \* the method's limiter: calls counted in the current window
    last_reset,       \* the method's limiter: when the current window began
    call,             \* the caller's invocations, and the latest one in detail
    csv,              \* dashboard: f1_2024_highlights.csv, whether it exists and
                      \* its rows
    controls,         \* dashboard: the values of the sort dropdown and the date
                      \* picker
    cache,            \* dashboard: the results lru_cache keeps of apply_filters
    refreshed,        \* dashboard: what the latest combined_data_callback did:
                      \* "never" called, "loaded" the file, "kept" the data
    dpc,              \* dashboard: "import", "serving", "crashed"
    initial_df,       \* dashboard: the table load_data returned at import
    session_data,     \* dashboard: the table the session holds, <<>> for None
    output            \* dashboard: what the latest callback returned

runVars == <<apiKey, playlistId, pc, attempt, initLog, next_page_token, page_count,
             videos, pageLog, playlist_items, partial, dropped, video_ids, i,
             details, chunkLog, video_details, df, dfSet, sink>>

limiterVars == <<now, num_calls, last_reset, call>>

dashVars == <<csv, dpc, initial_df, session_data, output, controls, cache, refreshed>>

vars == <<runVars, limiterVars, dashVars>>

(***************************************************************************)
(* Bounds of the model and constants of the program.                       *)
(***************************************************************************)
MaxPages == 3          \* pages after which the API sends no further token
MaxBatch == 3          \* longest batch of the normaliser-only specification
MaxAttempts == 3       \* stop_after_attempt(3)
ChunkSize == 50        \* range(0, len(video_ids), 50)
FallbackYear == 1970   \* '1970-01-01T00:00:00Z'
CALLS == 7             \* YouTubeAnalytics.CALLS
RATE_PERIOD == 60      \* YouTubeAnalytics.RATE_PERIOD, in seconds
WaitMin == 4           \* wait_exponential(multiplier=1, min=4, max=10)
WaitMax == 10
MaxCalls == 10         \* invocations of the rate-guarded method by one caller
MaxTime == 80          \* the caller starts nothing after this many seconds
MaxSleeps == 2         \* sleeps of sleep_and_retry within one invocation
MaxRows == 2           \* rows of the CSV file the dashboard loads

None == 0

Min(a, b) == IF a < b THEN a ELSE b

Range(a, b) == [k \in 1..(b - a + 1) |-> a + k - 1]

RECURSIVE Concat(_)
Concat(ss) == IF ss = <<>> THEN <<>> ELSE Head(ss) \o Concat(Tail(ss))

(***************************************************************************)
(* Python dictionaries are functions whose domain is the set of keys       *)
(* present; strings that the program parses are sequences of characters.   *)
(***************************************************************************)
EmptyDict == [k \in {} |-> 0]

Get(d, k, default) == IF k \in DOMAIN d THEN d[k] ELSE default

Truthy(d) == DOMAIN d # {}

DigitChars == <<"0", "1", "2", "3", "4", "5", "6", "7", "8", "9">>

IsDigit(c) == \E n \in 1..10 : DigitChars[n] = c

DigitVal(c) == (CHOOSE n \in 1..10 : DigitChars[n] = c) - 1

RECURSIVE DigitsValue(_, _)
DigitsValue(s, acc) ==
    IF s = <<>> THEN acc
    ELSE IF Head(s) = "_" THEN DigitsValue(Tail(s), acc)
    ELSE DigitsValue(Tail(s), 10 * acc + DigitVal(Head(s)))

RECURSIVE Strip(_)
Strip(s) ==
    IF s = <<>> THEN s
    ELSE IF Head(s) = " " THEN Strip(Tail(s))
    ELSE IF s[Len(s)] = " " THEN Strip(SubSeq(s, 1, Len(s) - 1))
    ELSE s

\* digits, with single underscores allowed between two digits
IsDecimalBody(s) ==
    /\ s # <<>>
    /\ \A n \in 1..Len(s) :
          \/ IsDigit(s[n])
          \/ /\ s[n] = "_"
             /\ n > 1 /\ n < Len(s)
             /\ IsDigit(s[n - 1]) /\ IsDigit(s[n + 1])

\* Python's int(str): [ok |-> FALSE] models ValueError
ParseInt(s) ==
    LET t == Strip(s)
        signed == t # <<>> /\ Head(t) \in {"+", "-"}
        body == IF signed THEN Tail(t) ELSE t
    IN  IF IsDecimalBody(body)
        THEN [ok |-> TRUE,
              val |-> IF signed /\ Head(t) = "-"
                      THEN 0 - DigitsValue(body, 0) ELSE DigitsValue(body, 0)]
        ELSE [ok |-> FALSE, val |-> 0]

(***************************************************************************)
(* datetime.strptime(s, '%Y-%m-%dT%H:%M:%SZ'): a four-digit year, then     *)
(* fields of one or two digits, each followed by its separator, nothing    *)
(* after the Z, and a date that exists.                                    *)
(***************************************************************************)
RECURSIVE DigitsPrefixLen(_)
DigitsPrefixLen(s) ==
    IF s # <<>> /\ IsDigit(Head(s)) THEN 1 + DigitsPrefixLen(Tail(s)) ELSE 0

Drop(s, n) == SubSeq(s, n + 1, Len(s))

\* the fields of the format: the digit counts allowed and the separator after
DateFormat ==
    << [widths |-> {4}, sep |-> "-"], [widths |-> {1, 2}, sep |-> "-"],
       [widths |-> {1, 2}, sep |-> "T"], [widths |-> {1, 2}, sep |-> ":"],
       [widths |-> {1, 2}, sep |-> ":"], [widths |-> {1, 2}, sep |-> "Z"] >>

\* the values of the fields of s from field k on; <<-1>> when s does not match
RECURSIVE ParseFields(_, _)
ParseFields(s, k) ==
    IF k > Len(DateFormat) THEN (IF s = <<>> THEN <<>> ELSE <<-1>>)
    ELSE LET n == DigitsPrefixLen(s)
             rest == Drop(s, n)
         IN  IF n \in DateFormat[k].widths /\ rest # <<>>
                /\ Head(rest) = DateFormat[k].sep
             THEN LET more == ParseFields(Tail(rest), k + 1)
                  IN  IF more = <<-1>> THEN <<-1>>
                      ELSE <<DigitsValue(SubSeq(s, 1, n), 0)>> \o more
             ELSE <<-1>>

IsLeap(y) == (y % 4 = 0 /\ y % 100 # 0) \/ y % 400 = 0

DaysIn(y, m) ==
    IF m = 2 THEN (IF IsLeap(y) THEN 29 ELSE 28)
    ELSE IF m \in {4, 6, 9, 11} THEN 30 ELSE 31

\* [ok |-> FALSE] models ValueError
Strptime(s) ==
    LET f == ParseFields(s, 1)
        bad == [ok |-> FALSE, year |-> 0, month |-> 0, day |-> 0,
                hour |-> 0, minute |-> 0, second |-> 0]
    IN  IF f = <<-1>> THEN bad
        ELSE IF /\ f[1] >= 1
                /\ f[2] \in 1..12
                /\ f[3] >= 1 /\ f[3] <= DaysIn(f[1], f[2])
                /\ f[4] \in 0..23 /\ f[5] \in 0..59 /\ f[6] \in 0..59
             THEN [ok |-> TRUE, year |-> f[1], month |-> f[2], day |-> f[3],
                   hour |-> f[4], minute |-> f[5], second |-> f[6]]
             ELSE bad

Pad2(n) == <<DigitChars[(n \div 10) + 1], DigitChars[(n % 10) + 1]>>

Pad4(n) == Pad2(n \div 100) \o Pad2(n % 100)

\* the API's rendering of a publication instant
Iso(y, mo, d, h, mi, sec) ==
    Pad4(y) \o <<"-">> \o Pad2(mo) \o <<"-">> \o Pad2(d) \o <<"T">>
    \o Pad2(h) \o <<":">> \o Pad2(mi) \o <<":">> \o Pad2(sec) \o <<"Z">>

\* the default of snippet.get('publishedAt', ...)
FallbackEpoch == Iso(FallbackYear, 1, 1, 0, 0, 0)

NA == <<"N", "/", "A">>

(***************************************************************************)
(* pd.to_timedelta over the ISO-8601 durations the API sends (PT#H#M#S),   *)
(* then str(timedelta(seconds=...)): H:MM:SS.  Anything else, the default  *)
(* 'N/A' included, raises and gives 'N/A'.                                 *)
(***************************************************************************)
RECURSIVE DurationSeconds(_, _)
DurationSeconds(s, units) ==
    IF s = <<>> THEN 0
    ELSE LET n == DigitsPrefixLen(s)
             rest == Drop(s, n)
         IN  IF n = 0 \/ rest = <<>> \/ units = <<>> THEN -1
             ELSE IF Head(rest) = Head(units).sym
                  THEN LET more == DurationSeconds(Tail(rest), Tail(units))
                       IN  IF more < 0 THEN -1
                           ELSE DigitsValue(SubSeq(s, 1, n), 0) * Head(units).secs + more
                  ELSE DurationSeconds(s, Tail(units))

DurationUnits == << [sym |-> "H", secs |-> 3600], [sym |-> "M", secs |-> 60],
                    [sym |-> "S", secs |-> 1] >>

RECURSIVE Decimal(_)
Decimal(n) == IF n < 10 THEN <<DigitChars[n + 1]>>
              ELSE Decimal(n \div 10) \o <<DigitChars[(n % 10) + 1]>>

DurationReadable(duration) ==
    IF Len(duration) > 2 /\ SubSeq(duration, 1, 2) = <<"P", "T">>
    THEN LET secs == DurationSeconds(Drop(duration, 2), DurationUnits)
         IN  IF secs < 0 \/ secs >= 86400 THEN NA
             ELSE Decimal(secs \div 3600) \o <<":">> \o Pad2((secs % 3600) \div 60)
                  \o <<":">> \o Pad2(secs % 60)
    ELSE NA

(***************************************************************************)
(* The detail records the API holds.  A record is a dictionary; the video  *)
(* with id v has the record RawDetail(v), drawn from a catalogue of the    *)
(* shapes a record takes: complete ones, ones lacking a section, ones with *)
(* odd counts or dates.                                                    *)
(***************************************************************************)
Without(d, k) == [x \in (DOMAIN d) \ {k} |-> d[x]]

With(d, k, v) == [x \in (DOMAIN d) \cup {k} |-> IF x = k THEN v ELSE d[x]]

GoodSnippet(year) ==
    [title |-> "Race Highlights", publishedAt |-> Iso(year, 3, 10, 12, 0, 0),
     channelTitle |-> "FORMULA 1", description |-> "text",
     tags |-> << <<"f", "1">>, <<"g", "p">> >>,
     thumbnails |-> [high |-> [url |-> "https://i.ytimg.com/hq.jpg"]]]

GoodStats ==
    [viewCount |-> <<"1", "7">>, likeCount |-> <<"3">>, commentCount |-> <<"0">>]

GoodContent == [duration |-> <<"P", "T", "4", "M", "1", "3", "S">>]

Detail(snippet, statistics, contentDetails) ==
    [snippet |-> snippet, statistics |-> statistics, contentDetails |-> contentDetails]

Catalogue ==
    << Detail(GoodSnippet(2024), GoodStats, GoodContent),
       Detail(Without(GoodSnippet(2023), "tags"), GoodStats, GoodContent),
       Without(Detail(GoodSnippet(2024), GoodStats, GoodContent), "statistics"),
       Detail(EmptyDict, GoodStats, GoodContent),
       Without(Detail(GoodSnippet(2024), GoodStats, GoodContent), "contentDetails"),
       Detail(GoodSnippet(2024), With(GoodStats, "viewCount", <<"-", "5">>), GoodContent),
       Detail(GoodSnippet(2024), With(GoodStats, "likeCount", <<"1", "K">>), GoodContent),
       Detail(GoodSnippet(2023), Without(GoodStats, "commentCount"), GoodContent),
       Detail(Without(GoodSnippet(2024), "publishedAt"), GoodStats, GoodContent),
       Detail(With(GoodSnippet(2024), "publishedAt",
                   SubSeq(Iso(2024, 3, 10, 12, 0, 0), 1, 19) \o <<".", "0", "0", "0", "Z">>),
              GoodStats, GoodContent),
       Detail(GoodSnippet(2022), Without(GoodStats, "viewCount"), GoodContent),
       Detail(With(GoodSnippet(2024), "tags", <<>>), GoodStats, With(GoodContent, "duration", NA)),
       Detail(With(GoodSnippet(2024), "tags", << <<>> >>), GoodStats, GoodContent) >>

RawDetail(v) == With(Catalogue[((v - 1) % Len(Catalogue)) + 1], "id", v)

\* the list of dictionaries behind a list of video ids
Records(vs) == [k \in DOMAIN vs |-> RawDetail(vs[k])]

(***************************************************************************)
(* processar_dados                                                         *)
(***************************************************************************)
\* all([snippet, stats, content_details])
IsComplete(item) ==
    /\ Truthy(Get(item, "snippet", EmptyDict))
    /\ Truthy(Get(item, "statistics", EmptyDict))
    /\ Truthy(Get(item, "contentDetails", EmptyDict))

\* int(stats.get(key, 0))
Count(stats, key) ==
    IF key \in DOMAIN stats THEN ParseInt(stats[key]) ELSE [ok |-> TRUE, val |-> 0]

RECURSIVE Join(_)
Join(tags) ==
    IF tags = <<>> THEN <<>>
    ELSE IF Len(tags) = 1 THEN Head(tags)
    ELSE Head(tags) \o <<",">> \o Join(Tail(tags))

\* the body of the try: [ok |-> FALSE] when an exception reaches the except
BuildRow(item) ==
    LET snippet == Get(item, "snippet", EmptyDict)
        stats == Get(item, "statistics", EmptyDict)
        content_details == Get(item, "contentDetails", EmptyDict)
        data_publicacao == Strptime(Get(snippet, "publishedAt", FallbackEpoch))
        views == Count(stats, "viewCount")
        likes == Count(stats, "likeCount")
        comments == Count(stats, "commentCount")
        tags == Get(snippet, "tags", <<>>)
    IN  [ok |-> data_publicacao.ok /\ views.ok /\ likes.ok /\ comments.ok,
         row |-> [video_id |-> Get(item, "id", None),
                  titulo |-> Get(snippet, "title", "N/A"),
                  data_publicacao |-> Without(data_publicacao, "ok"),
                  visualizacoes |-> views.val,
                  curtidas |-> likes.val,
                  comentarios |-> comments.val,
                  duracao |-> DurationReadable(Get(content_details, "duration", NA)),
                  thumbnail |-> Get(Get(Get(snippet, "thumbnails", EmptyDict),
                                        "high", EmptyDict), "url", ""),
                  descricao |-> Get(snippet, "description", ""),
                  tags |-> IF tags # <<>> THEN Join(tags) ELSE NA,
                  canal |-> Get(snippet, "channelTitle", "N/A")]]

\* a variant of ProcessItem without the guard on the three sections
ProcessItemUnguarded(rows, item) ==
    LET r == BuildRow(item)
    IN  IF r.ok THEN Append(rows, r.row) ELSE rows

\* one iteration of the loop over video_details
ProcessItem(rows, item) ==
    IF ~IsComplete(item) THEN rows
    ELSE LET r == BuildRow(item)
         IN  IF r.ok THEN Append(rows, r.row) ELSE rows

\* the for loop over raw[lo..hi], left to right (the first half is computed
\* before the second is entered)
RECURSIVE ProcessRange(_, _, _, _)
ProcessRange(rows, raw, lo, hi) ==
    IF lo > hi THEN rows
    ELSE IF lo = hi THEN ProcessItem(rows, raw[lo])
    ELSE LET mid == (lo + hi) \div 2
             left == ProcessRange(rows, raw, lo, mid)
         IN  IF left = left THEN ProcessRange(left, raw, mid + 1, hi) ELSE rows

\* the rows of self.df
processar_dados(raw) == ProcessRange(<<>>, raw, 1, Len(raw))

(***************************************************************************)
(* The YouTube API.  A playlist item is named by its position in the       *)
(* playlist; the page that starts at a position holds the positions that   *)
(* follow, and its token is the position the next page starts at.          *)
(***************************************************************************)
PageCounts == {1, 10, 24, 50}

FatalStatus == {403, 429}

\* 500: another HTTP status; 0: an exception that is not an HttpError
ErrorStatus == FatalStatus \cup {500, 0}

Page(items, token) ==
    [kind |-> "page", items |-> items, nextPageToken |-> token, status |-> 200]

Failure(status) ==
    [kind |-> "error", items |-> <<>>, nextPageToken |-> None, status |-> status]

\* what playlistItems().list(pageToken=token).execute() may do on page n
PageResponses(token, n) ==
    LET start == IF token = None THEN 1 ELSE token
    IN  UNION {{Page(Range(start, start + c - 1), t) :
                      t \in {None} \cup (IF n < MaxPages THEN {start + c} ELSE {})} :
                   c \in PageCounts}
        \cup {Page(<<>>, t) : t \in {None, start}}
        \cup {Failure(st) : st \in ErrorStatus}

\* the playlist item at position p: some list again the video of the position
\* before (the first of them falls into the next chunk of ids), some carry no
\* resourceId
PlaylistItem(p) ==
    IF p % 64 = 0 THEN [snippet |-> [title |-> "Private video"]]
    ELSE [snippet |-> [title |-> "Race Highlights",
                       resourceId |-> [videoId |-> IF p % 51 = 0 THEN p - 1 ELSE p]]]

Deleted(v) == v % 9 = 4

\* a video whose record comes without statistics
Bare == 3

\* what videos().list(id=','.join(batch)).execute() may do: the API answers
\* with the videos it still has, which may be all, some, one or none
DetailResponses(batch) ==
    {Page(batch, None), Page(SelectSeq(batch, LAMBDA v : ~Deleted(v)), None),
     Page(SelectSeq(batch, LAMBDA v : v = Bare), None), Page(<<>>, None)}
    \cup {Failure(st) : st \in ErrorStatus}

(***************************************************************************)
(* coletar_videos_playlist: one iteration of the while loop.               *)
(* outcome "loop": next iteration; "return": break, then return videos;    *)
(* "raise": the exception leaves the function.                             *)
(***************************************************************************)
\* variant: the page without a token ends the loop before its items are kept
FetchIterationDropsLastPage(vs, token, response) ==
    IF response.kind = "error"
    THEN [videos |-> vs, next_page_token |-> token,
          outcome |-> IF response.status \in FatalStatus THEN "raise" ELSE "return"]
    ELSE IF response.items = <<>> \/ response.nextPageToken = None
    THEN [videos |-> vs, next_page_token |-> token, outcome |-> "return"]
    ELSE [videos |-> vs \o response.items,
          next_page_token |-> response.nextPageToken, outcome |-> "loop"]

\* variant: every HttpError is re-raised
FetchIterationRaisesAll(vs, token, response) ==
    IF response.kind = "error"
    THEN [videos |-> vs, next_page_token |-> token,
          outcome |-> IF response.status # 0 THEN "raise" ELSE "return"]
    ELSE IF response.items = <<>>
    THEN [videos |-> vs, next_page_token |-> token, outcome |-> "return"]
    ELSE [videos |-> vs \o response.items,
          next_page_token |-> response.nextPageToken,
          outcome |-> IF response.nextPageToken = None THEN "return" ELSE "loop"]

\* variant: a 403 or 429 ends the loop like any other error
FetchIterationBreaksOnFatal(vs, token, response) ==
    IF response.kind = "error"
    THEN [videos |-> vs, next_page_token |-> token, outcome |-> "return"]
    ELSE IF response.items = <<>>
    THEN [videos |-> vs, next_page_token |-> token, outcome |-> "return"]
    ELSE [videos |-> vs \o response.items,
          next_page_token |-> response.nextPageToken,
          outcome |-> IF response.nextPageToken = None THEN "return" ELSE "loop"]

\* variant: a response without items does not end the loop
FetchIterationLoopsOnEmpty(vs, token, response) ==
    IF response.kind = "error"
    THEN [videos |-> vs, next_page_token |-> token,
          outcome |-> IF response.status \in FatalStatus THEN "raise" ELSE "return"]
    ELSE IF response.items = <<>>
    THEN [videos |-> vs, next_page_token |-> token, outcome |-> "loop"]
    ELSE [videos |-> vs \o response.items,
          next_page_token |-> response.nextPageToken,
          outcome |-> IF response.nextPageToken = None THEN "return" ELSE "loop"]

FetchIteration(vs, token, response) ==
    IF response.kind = "error"
    THEN [videos |-> vs, next_page_token |-> token,
          outcome |-> IF response.status \in FatalStatus THEN "raise" ELSE "return"]
    ELSE IF response.items = <<>>
    THEN [videos |-> vs, next_page_token |-> token, outcome |-> "return"]
    ELSE [videos |-> vs \o response.items,
          next_page_token |-> response.nextPageToken,
          outcome |-> IF response.nextPageToken = None THEN "return" ELSE "loop"]

(***************************************************************************)
(* obter_detalhes_videos: one iteration of the for loop.                   *)
(***************************************************************************)
\* variant: the slice is one id short of the step
BatchShort(ids, offset) ==
    SubSeq(ids, offset + 1, Min(offset + ChunkSize - 1, Len(ids)))

\* video_ids[i:i+50]
Batch(ids, offset) == SubSeq(ids, offset + 1, Min(offset + ChunkSize, Len(ids)))

\* variant: an empty response or a transient error ends the loop
DetailsIterationBreaks(ds, response) ==
    IF response.kind = "error"
    THEN [details |-> ds,
          outcome |-> IF response.status \in FatalStatus THEN "raise" ELSE "break"]
    ELSE IF response.items = <<>> THEN [details |-> ds, outcome |-> "break"]
    ELSE [details |-> ds \o response.items, outcome |-> "continue"]

\* variant: a 403 or 429 skips the chunk like any other error
DetailsIterationSkipsFatal(ds, response) ==
    IF response.kind = "error" \/ response.items = <<>>
    THEN [details |-> ds, outcome |-> "continue"]
    ELSE [details |-> ds \o response.items, outcome |-> "continue"]

DetailsIteration(ds, response) ==
    IF response.kind = "error"
    THEN [details |-> ds,
          outcome |-> IF response.status \in FatalStatus THEN "raise" ELSE "continue"]
    ELSE IF response.items = <<>> THEN [details |-> ds, outcome |-> "continue"]
    ELSE [details |-> ds \o response.items, outcome |-> "continue"]

(***************************************************************************)
(* main: the extraction of the video ids, and salvar_dados.                *)
(***************************************************************************)
HasVideoId(item) ==
    /\ "snippet" \in DOMAIN item
    /\ "resourceId" \in DOMAIN item.snippet
    /\ "videoId" \in DOMAIN item.snippet.resourceId

\* one iteration of the loop over playlist_items: a KeyError skips the item
ExtractId(ids, position) ==
    LET item == PlaylistItem(position)
    IN  IF HasVideoId(item) THEN Append(ids, item.snippet.resourceId.videoId) ELSE ids

\* the for loop over items[lo..hi], left to right
RECURSIVE ExtractRange(_, _, _, _)
ExtractRange(ids, items, lo, hi) ==
    IF lo > hi THEN ids
    ELSE IF lo = hi THEN ExtractId(ids, items[lo])
    ELSE LET mid == (lo + hi) \div 2
             left == ExtractRange(ids, items, lo, mid)
         IN  IF left = left THEN ExtractRange(left, items, mid + 1, hi) ELSE ids

\* variant: no id is extracted
ExtractIdsNone(items) == <<>>

ExtractIds(items) == ExtractRange(<<>>, items, 1, Len(items))

\* variant: main goes on with nothing
NothingLeftIgnored(records) == FALSE

\* main's tests after each stage: not playlist_items, not video_ids,
\* not video_details, df.empty
NothingLeft(records) == records = <<>>

\* salvar_dados: to_csv when self.df is not None
SalvarDados(isSet, rows, file) ==
    IF isSet THEN [written |-> TRUE, rows |-> rows] ELSE file

(***************************************************************************)
(* The run: the module's configuration check, then main().                 *)
(***************************************************************************)
\* the parts of the state that a run of main leaves alone
NoCall == [invoked |-> 0, executed |-> 0, firstSlept |-> 0, started |-> 0,
           admitted |-> 0, window |-> 0, before |-> 0, requests |-> 0,
           finished |-> 0]

LimiterIdle ==
    /\ now = 0
    /\ num_calls = 0
    /\ last_reset = 0
    /\ call = NoCall

NoOutput == [callback |-> "none", value |-> <<>>]

MissingFile == [exists |-> FALSE, rows |-> <<>>]

NoControls == [sort_by |-> [column |-> "none", suffix |-> "none"],
               period |-> [start |-> 0, end |-> 0]]

DashIdle ==
    /\ csv = MissingFile
    /\ dpc = "idle"
    /\ initial_df = <<>>
    /\ session_data = <<>>
    /\ output = NoOutput
    /\ controls = NoControls
    /\ cache = {}
    /\ refreshed = "never"

NoFile == [written |-> FALSE, rows |-> <<>>]

Init ==
    /\ apiKey \in BOOLEAN
    /\ playlistId \in BOOLEAN
    /\ pc = "load"
    /\ attempt = 0
    /\ initLog = <<>>
    /\ next_page_token = None
    /\ page_count = 0
    /\ videos = <<>>
    /\ pageLog = <<>>
    /\ playlist_items = <<>>
    /\ partial = FALSE
    /\ dropped = FALSE
    /\ video_ids = <<>>
    /\ i = 0
    /\ details = <<>>
    /\ chunkLog = <<>>
    /\ video_details = <<>>
    /\ df = <<>>
    /\ dfSet = FALSE
    /\ sink = NoFile
    /\ LimiterIdle
    /\ DashIdle

\* where a raise of a guarded call leads: the guard's wait, or, after the
\* last attempt, main's except, which re-raises
\* variant: a raise reaches main at once, the guard never waits
AfterRaiseNoRetry(waiting) == "failed"

\* variant: the guard allows one attempt more
AfterRaiseFourAttempts(waiting) ==
    IF attempt < MaxAttempts + 1 THEN waiting ELSE "failed"

AfterRaise(waiting) == IF attempt < MaxAttempts THEN waiting ELSE "failed"

\* variant: only the API key is tested
ConfigLoadedKeyOnly(key, id) == key

\* not (not API_KEY or not PLAYLIST_ID)
ConfigLoaded(key, id) == key /\ id

\* the module-level check of API_KEY and PLAYLIST_ID: a ValueError when one
\* of them is not set
LoadModule ==
    /\ pc = "load"
    /\ pc' = IF ConfigLoaded(apiKey, playlistId) THEN "init" ELSE "failed"
    /\ attempt' = 1
    /\ UNCHANGED <<apiKey, playlistId, initLog, next_page_token, page_count, videos, pageLog,
                   playlist_items, video_ids, i, details, chunkLog, video_details,
                   df, dfSet, sink>>
    /\ UNCHANGED <<partial, dropped, limiterVars, dashVars>>

\* _inicializar_servico: every exception of build() is re-raised
InicializarServico ==
    /\ pc = "init"
    /\ \E status \in {200} \cup ErrorStatus :
          /\ initLog' = Append(initLog, status)
          /\ pc' = IF status = 200 THEN "construct" ELSE AfterRaise("init_wait")
    /\ UNCHANGED <<apiKey, playlistId, attempt, next_page_token, page_count, videos,
                   pageLog, playlist_items, video_ids, i, details, chunkLog,
                   video_details, df, dfSet, sink>>
    /\ UNCHANGED <<partial, dropped, limiterVars, dashVars>>

\* __init__ keeps the service and main calls coletar_videos_playlist; the
\* frame of _inicializar_servico is gone
Construir ==
    /\ pc = "construct"
    /\ pc' = "fetch"
    /\ attempt' = 1
    /\ initLog' = <<>>
    /\ videos' = <<>>
    /\ dfSet' = FALSE
    /\ UNCHANGED <<apiKey, playlistId, next_page_token, page_count, pageLog,
                   playlist_items, video_ids, i, details, chunkLog, video_details,
                   df, sink>>
    /\ UNCHANGED <<partial, dropped, limiterVars, dashVars>>

\* the retry guard calls _inicializar_servico again
RetryInicializar ==
    /\ pc = "init_wait"
    /\ pc' = "init"
    /\ attempt' = attempt + 1
    /\ UNCHANGED <<apiKey, playlistId, initLog, next_page_token, page_count, videos, pageLog,
                   playlist_items, video_ids, i, details, chunkLog, video_details,
                   df, dfSet, sink>>
    /\ UNCHANGED <<partial, dropped, limiterVars, dashVars>>

\* coletar_videos_playlist: one page request and what the loop does with it
ColetarPagina ==
    /\ pc = "fetch"
    /\ \E response \in PageResponses(next_page_token, page_count + 1) :
          LET r == FetchIteration(videos, next_page_token, response)
          IN  /\ pageLog' = Append(pageLog, response)
              /\ videos' = r.videos
              /\ next_page_token' = r.next_page_token
              /\ pc' = CASE r.outcome = "loop" -> "fetch"
                         [] r.outcome = "return" -> "ids"
                         [] OTHER -> AfterRaise("fetch_wait")
              /\ playlist_items' = IF r.outcome = "return" THEN r.videos
                                   ELSE playlist_items
              /\ partial' = IF r.outcome = "return" THEN response.kind = "error"
                            ELSE partial
              /\ dropped' = IF r.outcome = "raise" THEN dropped \/ r.videos # <<>>
                            ELSE dropped
    /\ page_count' = page_count + 1
    /\ UNCHANGED <<apiKey, playlistId, initLog, attempt, video_ids, i, details, chunkLog,
                   video_details, df, dfSet, sink>>
    /\ UNCHANGED <<limiterVars, dashVars>>

\* variant: the new attempt goes on with the list of the failed one
RetryColetarKeepsVideos ==
    /\ pc = "fetch_wait"
    /\ pc' = "fetch"
    /\ attempt' = attempt + 1
    /\ next_page_token' = None
    /\ page_count' = 0
    /\ pageLog' = <<>>
    /\ UNCHANGED <<apiKey, playlistId, initLog, videos, playlist_items, video_ids, i,
                   details, chunkLog, video_details, df, dfSet, sink>>
    /\ UNCHANGED <<partial, dropped, limiterVars, dashVars>>

\* the retry guard calls coletar_videos_playlist again: its locals start anew
RetryColetar ==
    /\ pc = "fetch_wait"
    /\ pc' = "fetch"
    /\ attempt' = attempt + 1
    /\ videos' = <<>>
    /\ next_page_token' = None
    /\ page_count' = 0
    /\ pageLog' = <<>>
    /\ UNCHANGED <<apiKey, playlistId, initLog, playlist_items, video_ids, i, details,
                   chunkLog, video_details, df, dfSet, sink>>
    /\ UNCHANGED <<partial, dropped, limiterVars, dashVars>>

\* main: the check of playlist_items and the extraction of the video ids, up
\* to the call of obter_detalhes_videos; the frame of coletar_videos_playlist
\* is gone
ExtrairIds ==
    /\ pc = "ids"
    /\ video_ids' = ExtractIds(playlist_items)
    /\ pc' = IF NothingLeft(playlist_items) \/ NothingLeft(video_ids')
             THEN "returned" ELSE "details"
    /\ attempt' = 1
    /\ i' = 0
    /\ details' = <<>>
    /\ chunkLog' = <<>>
    /\ videos' = <<>>
    /\ next_page_token' = None
    /\ page_count' = 0
    /\ pageLog' = <<>>
    /\ UNCHANGED <<apiKey, playlistId, initLog, playlist_items, video_details, df, dfSet, sink>>
    /\ dropped' = FALSE
    /\ UNCHANGED <<partial, limiterVars, dashVars>>

\* obter_detalhes_videos: one chunk request and what the loop does with it
ObterChunk ==
    /\ pc = "details"
    /\ \E response \in DetailResponses(Batch(video_ids, i)) :
          LET r == DetailsIteration(details, response)
              returns == \/ r.outcome = "break"
                         \/ r.outcome = "continue" /\ i + ChunkSize >= Len(video_ids)
          IN  /\ chunkLog' = Append(chunkLog, [batch |-> Batch(video_ids, i),
                                               response |-> response])
              /\ details' = r.details
              /\ i' = IF r.outcome = "continue" THEN i + ChunkSize ELSE i
              /\ pc' = CASE r.outcome = "raise" -> AfterRaise("details_wait")
                         [] returns -> "check"
                         [] OTHER -> "details"
              /\ video_details' = IF returns THEN r.details ELSE video_details
    /\ UNCHANGED <<apiKey, playlistId, initLog, attempt, next_page_token, page_count, videos,
                   pageLog, playlist_items, video_ids, df, dfSet, sink>>
    /\ UNCHANGED <<partial, dropped, limiterVars, dashVars>>

\* the retry guard calls obter_detalhes_videos again: its locals start anew
RetryObter ==
    /\ pc = "details_wait"
    /\ pc' = "details"
    /\ attempt' = attempt + 1
    /\ i' = 0
    /\ details' = <<>>
    /\ chunkLog' = <<>>
    /\ UNCHANGED <<apiKey, playlistId, initLog, next_page_token, page_count, videos, pageLog,
                   playlist_items, video_ids, video_details, df, dfSet, sink>>
    /\ UNCHANGED <<partial, dropped, limiterVars, dashVars>>

\* main: the check of video_details; the frame of obter_detalhes_videos is gone
ConferirDetalhes ==
    /\ pc = "check"
    /\ pc' = IF NothingLeft(video_details) THEN "returned" ELSE "process"
    /\ i' = 0
    /\ details' = <<>>
    /\ chunkLog' = <<>>
    /\ UNCHANGED <<apiKey, playlistId, initLog, attempt, next_page_token, page_count, videos,
                   pageLog, playlist_items, video_ids, video_details, df, dfSet, sink>>
    /\ UNCHANGED <<partial, dropped, limiterVars, dashVars>>

\* main: processar_dados and the check of df
Processar ==
    /\ pc = "process"
    /\ df' = processar_dados(Records(video_details))
    /\ dfSet' = TRUE
    /\ pc' = IF NothingLeft(df') THEN "returned" ELSE "save"
    /\ UNCHANGED <<apiKey, playlistId, initLog, attempt, next_page_token, page_count, videos,
                   pageLog, playlist_items, video_ids, i, details, chunkLog,
                   video_details, sink>>
    /\ UNCHANGED <<partial, dropped, limiterVars, dashVars>>

\* main: the 2023-2024 filter, which is only logged, then salvar_dados
Salvar ==
    /\ pc = "save"
    /\ sink' = SalvarDados(dfSet, df, sink)
    /\ pc' = "done"
    /\ UNCHANGED <<apiKey, playlistId, initLog, attempt, next_page_token, page_count, videos,
                   pageLog, playlist_items, video_ids, i, details, chunkLog,
                   video_details, df, dfSet>>
    /\ UNCHANGED <<partial, dropped, limiterVars, dashVars>>

Next ==
    \/ LoadModule
    \/ InicializarServico
    \/ RetryInicializar
    \/ Construir
    \/ ColetarPagina
    \/ RetryColetar
    \/ ExtrairIds
    \/ ObterChunk
    \/ RetryObter
    \/ ConferirDetalhes
    \/ Processar
    \/ Salvar

Spec == Init /\ [][Next]_vars

(***************************************************************************)
(* The normaliser alone: main from the return of obter_detalhes_videos on, *)
(* over every short batch of catalogue records.                            *)
(***************************************************************************)
RECURSIVE SeqsUpTo(_, _)
SeqsUpTo(S, n) ==
    IF n = 0 THEN {<<>>}
    ELSE LET shorter == SeqsUpTo(S, n - 1)
         IN  shorter \cup {Append(q, x) : q \in shorter, x \in S}

InitNorm ==
    /\ apiKey = TRUE
    /\ playlistId = TRUE
    /\ pc = "check"
    /\ attempt = 1
    /\ initLog = <<>>
    /\ next_page_token = None
    /\ page_count = 0
    /\ videos = <<>>
    /\ pageLog = <<>>
    /\ playlist_items = <<>>
    /\ partial = FALSE
    /\ dropped = FALSE
    /\ video_ids = <<>>
    /\ i = 0
    /\ details = <<>>
    /\ chunkLog = <<>>
    /\ video_details \in SeqsUpTo(1..Len(Catalogue), MaxBatch)
    /\ df = <<>>
    /\ dfSet = FALSE
    /\ sink = NoFile
    /\ LimiterIdle
    /\ DashIdle

NextNorm == ConferirDetalhes \/ Processar \/ Salvar

SpecNorm == InitNorm /\ [][NextNorm]_vars

(***************************************************************************)
(* The sink alone: salvar_dados called on an object whose table was set by *)
(* processar_dados on some short batch of catalogue records, or was never  *)
(* set.                                                                    *)
(***************************************************************************)
InitSink ==
    /\ apiKey = TRUE
    /\ playlistId = TRUE
    /\ pc = "save"
    /\ attempt = 1
    /\ initLog = <<>>
    /\ next_page_token = None
    /\ page_count = 0
    /\ videos = <<>>
    /\ pageLog = <<>>
    /\ playlist_items = <<>>
    /\ partial = FALSE
    /\ dropped = FALSE
    /\ video_ids = <<>>
    /\ i = 0
    /\ details = <<>>
    /\ chunkLog = <<>>
    /\ video_details \in SeqsUpTo(1..Len(Catalogue), MaxBatch)
    /\ dfSet \in BOOLEAN
    /\ df = IF dfSet THEN processar_dados(Records(video_details)) ELSE <<>>
    /\ sink = NoFile
    /\ LimiterIdle
    /\ DashIdle

NextSink == Salvar

SpecSink == InitSink /\ [][NextSink]_vars

(***************************************************************************)
(* The rate guard.  coletar_videos_playlist is decorated, from the outside *)
(* in, with sleep_and_retry, limits(calls=CALLS, period=RATE_PERIOD) and   *)
(* retry: the limiter counts the calls of the method in a window that      *)
(* begins at last_reset, raises when the count exceeds CALLS, and          *)
(* sleep_and_retry then sleeps for the rest of the window and calls again. *)
(* main calls the method once; here a caller invokes it again and again,   *)
(* letting time pass in between.                                           *)
(***************************************************************************)
\* variant: the call that reaches the limit is refused already
LimitsAtTheLimit(n, reset, t) ==
    LET remaining == RATE_PERIOD - (t - reset)
        counted == (IF remaining <= 0 THEN 0 ELSE n) + 1
    IN  [num_calls |-> counted,
         last_reset |-> IF remaining <= 0 THEN t ELSE reset,
         raised |-> counted >= CALLS,
         period_remaining |-> remaining]

\* the wrapper of limits at time t: a window that is over is begun anew, the
\* call is counted, and a call beyond CALLS raises RateLimitException
Limits(n, reset, t) ==
    LET remaining == RATE_PERIOD - (t - reset)
        counted == (IF remaining <= 0 THEN 0 ELSE n) + 1
    IN  [num_calls |-> counted,
         last_reset |-> IF remaining <= 0 THEN t ELSE reset,
         raised |-> counted > CALLS,
         period_remaining |-> remaining]

\* the wrapper of sleep_and_retry: while the limiter raises, sleep for
\* period_remaining and call again; `sleeps` bounds the iterations
RECURSIVE SleepAndRetry(_, _, _, _)
SleepAndRetry(n, reset, t, sleeps) ==
    LET r == Limits(n, reset, t)
    IN  IF ~r.raised
        THEN [num_calls |-> r.num_calls, last_reset |-> r.last_reset,
              admitted |-> t, executed |-> TRUE]
        ELSE IF sleeps = 0
        THEN [num_calls |-> r.num_calls, last_reset |-> r.last_reset,
              admitted |-> t, executed |-> FALSE]
        ELSE SleepAndRetry(r.num_calls, r.last_reset, t + r.period_remaining,
                           sleeps - 1)

\* wait_exponential(multiplier=1, min=4, max=10) after attempt number k
WaitExponential(k) ==
    LET exp == 2 ^ (k - 1)
    IN  IF exp < WaitMin THEN WaitMin ELSE IF exp > WaitMax THEN WaitMax ELSE exp

RECURSIVE TotalWait(_)
TotalWait(attempts) ==
    IF attempts <= 1 THEN 0
    ELSE TotalWait(attempts - 1) + WaitExponential(attempts - 1)

\* how a call of the method may go once admitted: its attempts, and the page
\* requests it issues over them
Courses ==
    {[attempts |-> 1, requests |-> 1],
     [attempts |-> 1, requests |-> MaxPages],
     [attempts |-> MaxAttempts, requests |-> MaxAttempts * MaxPages]}

\* seconds the caller may let pass between two invocations
Pauses == {4, 20}

InitLimiter ==
    /\ apiKey = TRUE
    /\ playlistId = TRUE
    /\ pc = "fetch"
    /\ attempt = 1
    /\ initLog = <<>>
    /\ next_page_token = None
    /\ page_count = 0
    /\ videos = <<>>
    /\ pageLog = <<>>
    /\ playlist_items = <<>>
    /\ partial = FALSE
    /\ dropped = FALSE
    /\ video_ids = <<>>
    /\ i = 0
    /\ details = <<>>
    /\ chunkLog = <<>>
    /\ video_details = <<>>
    /\ df = <<>>
    /\ dfSet = FALSE
    /\ sink = NoFile
    /\ LimiterIdle
    /\ DashIdle

\* one invocation of the decorated method: admitted at once or after the
\* sleep, then run, retries included
Invocar ==
    /\ call.invoked < MaxCalls
    /\ now <= MaxTime
    /\ LET r == SleepAndRetry(num_calls, last_reset, now, MaxSleeps)
       IN  \E course \in Courses :
              /\ num_calls' = r.num_calls
              /\ last_reset' = r.last_reset
              /\ now' = IF r.executed THEN r.admitted + TotalWait(course.attempts)
                        ELSE r.admitted
              /\ call' = [invoked |-> call.invoked + 1,
                          executed |-> call.executed + (IF r.executed THEN 1 ELSE 0),
                          firstSlept |-> IF call.firstSlept = 0 /\ r.admitted > now
                                         THEN call.invoked + 1 ELSE call.firstSlept,
                          started |-> now,
                          admitted |-> r.admitted,
                          window |-> last_reset,
                          before |-> num_calls,
                          requests |-> IF r.executed THEN course.requests ELSE 0,
                          finished |-> now']
    /\ UNCHANGED <<runVars, dashVars>>

\* the caller lets some time pass
Passar ==
    /\ call.invoked < MaxCalls
    /\ now <= MaxTime
    /\ \E pause \in Pauses : now' = now + pause
    /\ UNCHANGED <<num_calls, last_reset, call, runVars, dashVars>>

NextLimiter == Invocar \/ Passar

SpecLimiter == InitLimiter /\ [][NextLimiter]_vars

(***************************************************************************)
(* The dashboard of src/dashboard.py.  It reads the CSV file when the      *)
(* module is imported and again on every refresh, derives the metric       *)
(* columns, and its callbacks recompute some of them on the filtered       *)
(* table.  A float is a fraction num/den, or NaN, or an infinity, as       *)
(* pandas gives them for a division by zero; an instant is a number of     *)
(* seconds counted from 2024-01-01T00:00:00Z, and NaT is an unparseable    *)
(* date.                                                                   *)
(***************************************************************************)
Float(n, d) == [kind |-> "num", num |-> n, den |-> d]

NaN == [kind |-> "nan", num |-> 0, den |-> 1]

Infinity == [kind |-> "inf", num |-> 0, den |-> 1]

\* pandas keeps NaT as the least integer of the column's width
NaT == -2147483647

\* a / b on two columns of counts: pandas raises nothing for b = 0
Divide(a, b) ==
    IF b # 0 THEN Float(a, b) ELSE IF a = 0 THEN NaN ELSE Infinity

\* x * k and x / k for a float x and a positive count k
Times(x, k) == IF x.kind = "num" THEN Float(x.num * k, x.den) ELSE x

Over(x, k) == IF x.kind = "num" THEN Float(x.num, x.den * k) ELSE x

RECURSIVE Gcd(_, _)
Gcd(a, b) == IF b = 0 THEN a ELSE Gcd(b, a % b)

\* the fraction n / d for d > 0, in lowest terms
Lowest(n, d) ==
    LET g == Gcd(IF n < 0 THEN 0 - n ELSE n, d)
    IN  Float(n \div g, d \div g)

\* x + y, both taken in lowest terms first so that a sum of a column stays
\* within the integers of the checker
Plus(x, y) ==
    IF x.kind = "num" /\ y.kind = "num"
    THEN LET a == Lowest(x.num, x.den)
             b == Lowest(y.num, y.den)
         IN  Lowest(a.num * b.den + b.num * a.den, a.den * b.den)
    ELSE IF x.kind = "nan" \/ y.kind = "nan" THEN NaN ELSE Infinity

\* the integer nearest to n / d for d > 0, a tie going to the even one
RoundHalfEven(n, d) ==
    LET q == n \div d
        r == n - q * d
    IN  IF 2 * r < d THEN q
        ELSE IF 2 * r > d THEN q + 1
        ELSE IF q % 2 = 0 THEN q ELSE q + 1

\* round(x, decimals) and Series.round(decimals): NaN and infinity stay
Round(x, decimals) ==
    IF x.kind # "num" THEN x
    ELSE LET sign == IF x.den < 0 THEN 0 - 1 ELSE 1
         IN  Float(RoundHalfEven(sign * x.num * (10 ^ decimals), sign * x.den),
                   10 ^ decimals)

\* variant: no test of the views
safe_engagement_rate_unguarded(row) ==
    Round(Times(Divide(row.Curtidas + row.Comentarios, row.Visualizacoes), 100), 2)

\* the except branch, for values float() rejects, is not reached on counts
safe_engagement_rate(row) ==
    IF row.Visualizacoes = 0 THEN Float(0, 1)
    ELSE Round(Times(Divide(row.Curtidas + row.Comentarios, row.Visualizacoes),
                     100), 2)

\* Timedelta.days: whole days, rounded down
Days(seconds) == seconds \div 86400

\* variant: the day count is kept as it is
ClampDaysKeeps(days) == days

\* np.where(days < 1, 1, days)
ClampDays(days) == IF days < 1 THEN 1 ELSE days

\* np.where(views > 0, (count / views * 100).round(2), 0)
Proportion(count, views) ==
    IF views > 0 THEN Round(Times(Divide(count, views), 100), 2) ELSE Float(0, 1)

\* the year of an instant of 2023, 2024 or 2025
YearOf(t) == IF t < 0 THEN 2023 ELSE IF t < 366 * 86400 THEN 2024 ELSE 2025

\* the season: the four digits in the title, else the year of publication; a
\* season other than 2023 and 2024 becomes 2024
Temporada(row) ==
    LET found == IF row.Titulo # None THEN row.Titulo
                 ELSE YearOf(row.DataDePublicacao)
    IN  IF found \in {2023, 2024} THEN found ELSE 2024

\* the metric columns load_data adds to a row
WithMetrics(row, hoje) ==
    LET days == ClampDays(Days(hoje - row.DataDePublicacao))
    IN  [Titulo |-> row.Titulo,
         DataDePublicacao |-> row.DataDePublicacao,
         Visualizacoes |-> row.Visualizacoes,
         Curtidas |-> row.Curtidas,
         Comentarios |-> row.Comentarios,
         TaxaDeEngajamento |-> safe_engagement_rate(row),
         DiasDesdePublicacao |-> days,
         MediaDeVisualizacoesDiarias |-> Round(Divide(row.Visualizacoes, days), 0),
         ProporcaoCurtidas |-> Proportion(row.Curtidas, row.Visualizacoes),
         ProporcaoComentarios |-> Proportion(row.Comentarios, row.Visualizacoes),
         Temporada |-> Temporada(row)]

\* load_data on the file at instant hoje: a file that does not exist raises;
\* rows without a date are dropped; an empty table raises
load_data(file, hoje) ==
    LET dated == SelectSeq(file.rows, LAMBDA row : row.DataDePublicacao # NaT)
    IN  IF ~file.exists \/ dated = <<>> THEN [raised |-> TRUE, df |-> <<>>]
        ELSE [raised |-> FALSE,
              df |-> [k \in DOMAIN dated |-> WithMetrics(dated[k], hoje)]]

\* the rows a file may hold, by what the metrics depend on
Base == 100 * 86400

CsvRow(title, published, views, likes, comments) ==
    [Titulo |-> title, DataDePublicacao |-> published, Visualizacoes |-> views,
     Curtidas |-> likes, Comentarios |-> comments]

CsvCatalogue ==
    <<CsvRow(2024, Base - 10 * 86400, 800, 7, 0),
      CsvRow(None, Base, 0, 1, 0),
      CsvRow(2023, Base + 3 * 86400, 0, 0, 0),
      CsvRow(2019, Base - 1, 3, 1, 4),
      CsvRow(None, Base - 86400, 800, 1, 0),
      CsvRow(2024, NaT, 5, 1, 1),
      CsvRow(None, 0 - 200 * 86400, 3, 0, 0),
      CsvRow(2024, Base - 2 * 86400 - 1, 7, 2, 1)>>

File(rows) == [exists |-> TRUE, rows |-> rows]

\* the file is missing, or holds up to MaxRows rows (none: the header alone)
CsvFiles ==
    {MissingFile}
    \cup {File([k \in DOMAIN q |-> CsvCatalogue[q[k]]]) :
              q \in SeqsUpTo(1..Len(CsvCatalogue), MaxRows)}

\* the instants at which the file is loaded
Instants == {Base, Base + 86399}

\* the period of the date picker
Periods == {[start |-> 0 - 365 * 86400, end |-> Base + 10 * 86400],
            [start |-> Base - 86400, end |-> Base]}

\* the values of the sort dropdown that the model offers
SortOptions == {[column |-> "Visualizacoes", suffix |-> "_desc"],
                [column |-> "DataDePublicacao", suffix |-> "_asc"],
                [column |-> "TaxaDeEngajamento", suffix |-> "_desc"]}

\* what the user has selected in the two controls
Selections == [sort_by : SortOptions, period : Periods]

SortKey(row, column) ==
    IF column = "TaxaDeEngajamento" THEN row[column].num ELSE row[column]

\* sort_values on a short table: rows with equal keys keep their order
RECURSIVE SortValues(_, _, _)
SortValues(rows, column, ascending) ==
    IF rows = <<>> THEN <<>>
    ELSE LET sorted == SortValues(SubSeq(rows, 1, Len(rows) - 1), column, ascending)
             row == rows[Len(rows)]
             Before(other) ==
                 IF ascending THEN SortKey(other, column) <= SortKey(row, column)
                 ELSE SortKey(other, column) >= SortKey(row, column)
             ahead == SelectSeq(sorted, Before)
             behind == SelectSeq(sorted, LAMBDA other : ~Before(other))
         IN  ahead \o <<row>> \o behind

\* apply_filters: the rows of the period, sorted by the column that sort_by
\* names, ascending when sort_order is 'asc'
apply_filters(table, start_date, end_date, sort_by, sort_order) ==
    LET inPeriod == SelectSeq(table, LAMBDA row :
                        row.DataDePublicacao >= start_date
                        /\ row.DataDePublicacao <= end_date)
    IN  SortValues(inPeriod, sort_by.column, sort_order = "asc")

\* x / views on a float column: NaN for 0 / 0, infinity for x / 0
DivideFloat(x, views) ==
    IF views # 0 THEN Over(x, views) ELSE IF x.num = 0 THEN NaN ELSE Infinity

RECURSIVE Sum(_)
Sum(xs) == IF xs = <<>> THEN Float(0, 1) ELSE Plus(Head(xs), Sum(Tail(xs)))

RECURSIVE Total(_, _)
Total(rows, column) ==
    IF rows = <<>> THEN 0 ELSE Head(rows)[column] + Total(Tail(rows), column)

\* update_table: the engagement rate is computed anew on the filtered rows
update_table(filtered) ==
    [k \in DOMAIN filtered |->
        [filtered[k] EXCEPT !.TaxaDeEngajamento =
            Round(Times(Divide(filtered[k].Curtidas + filtered[k].Comentarios,
                               filtered[k].Visualizacoes), 100), 2)]]

\* update_metrics: the four cards; views of 0 are replaced by 1 in the average
update_metrics(filtered) ==
    LET rates == [k \in DOMAIN filtered |->
                    Times(Divide(filtered[k].Curtidas + filtered[k].Comentarios,
                                 IF filtered[k].Visualizacoes = 0 THEN 1
                                 ELSE filtered[k].Visualizacoes), 100)]
    IN  [total_videos |-> Len(filtered),
         total_views |-> Total(filtered, "Visualizacoes"),
         total_likes |-> Total(filtered, "Curtidas"),
         avg_engagement |-> Round(Over(Sum(rates), Len(filtered)), 2)]

\* update_graphs: the daily growth rate column of the sixth graph
update_graphs(filtered) ==
    [k \in DOMAIN filtered |->
        [Visualizacoes |-> filtered[k].Visualizacoes,
         TaxaDeEngajamento |-> filtered[k].TaxaDeEngajamento,
         TaxaDeCrescimento |->
            Times(DivideFloat(filtered[k].MediaDeVisualizacoesDiarias,
                              filtered[k].Visualizacoes), 100)]]

\* filtered_df['Taxa de Crescimento'] = ...: update_graphs sets the column on
\* the table apply_filters returned
WithGrowthRate(filtered) ==
    [k \in DOMAIN filtered |->
        With(filtered[k], "TaxaDeCrescimento",
             Times(DivideFloat(filtered[k].MediaDeVisualizacoesDiarias,
                               filtered[k].Visualizacoes), 100))]

\* lru_cache(maxsize=32) around apply_filters: a call with arguments it has
\* seen returns the table object it kept for them, any other call computes the
\* table.  The dashboard of the model makes fewer than 32 distinct calls, so
\* no entry is evicted.
Kept(memo, args) == {entry \in memo : entry.args = args}

cached_apply_filters(memo, args) ==
    IF Kept(memo, args) # {}
    THEN (CHOOSE entry \in Kept(memo, args) : TRUE).table
    ELSE apply_filters(args.df_json, args.start_date, args.end_date,
                       args.sort_by, args.sort_order)

\* the cache after a call for args, when the caller leaves the returned table
\* as `table`
Remember(memo, args, table) ==
    (memo \ Kept(memo, args)) \cup {[args |-> args, table |-> table]}

InitDash ==
    /\ apiKey = TRUE
    /\ playlistId = TRUE
    /\ pc = "done"
    /\ attempt = 1
    /\ initLog = <<>>
    /\ next_page_token = None
    /\ page_count = 0
    /\ videos = <<>>
    /\ pageLog = <<>>
    /\ playlist_items = <<>>
    /\ partial = FALSE
    /\ dropped = FALSE
    /\ video_ids = <<>>
    /\ i = 0
    /\ details = <<>>
    /\ chunkLog = <<>>
    /\ video_details = <<>>
    /\ df = <<>>
    /\ dfSet = FALSE
    /\ sink = NoFile
    /\ LimiterIdle
    /\ csv \in CsvFiles
    /\ dpc = "import"
    /\ initial_df = <<>>
    /\ session_data = <<>>
    /\ output = NoOutput
    /\ controls \in Selections
    /\ cache = {}
    /\ refreshed = "never"

\* initial_df = load_data() as the module is imported: a raise ends the process
ImportarModulo ==
    /\ dpc = "import"
    /\ \E hoje \in Instants :
          LET loaded == load_data(csv, hoje)
          IN  /\ dpc' = IF loaded.raised THEN "crashed" ELSE "serving"
              /\ initial_df' = loaded.df
    /\ UNCHANGED <<csv, session_data, output, controls, cache, refreshed, runVars,
                   limiterVars>>

\* variant: a refresh that fails empties the session
AfterRefreshClears(loaded, data) == IF loaded.raised THEN <<>> ELSE loaded.df

\* what combined_data_callback returns: the table load_data gave, or, from
\* the except, the data it was called with
AfterRefresh(loaded, data) == IF loaded.raised THEN data ELSE loaded.df

\* combined_data_callback, on page load and on every interval
CombinedDataCallback ==
    /\ dpc = "serving"
    /\ \E hoje \in Instants :
          LET loaded == load_data(csv, hoje)
          IN  /\ session_data' = AfterRefresh(loaded, session_data)
              /\ refreshed' = IF loaded.raised THEN "kept" ELSE "loaded"
    /\ UNCHANGED <<csv, dpc, initial_df, output, controls, cache, runVars, limiterVars>>

\* the collector, or the operator, replaces or removes the file while the
\* dashboard serves
Replacements ==
    {MissingFile}
    \cup {File([k \in DOMAIN q |-> CsvCatalogue[q[k]]]) :
              q \in SeqsUpTo(1..Len(CsvCatalogue), 1)}

TrocarArquivo ==
    /\ dpc = "serving"
    /\ csv' \in Replacements \ {csv}
    /\ UNCHANGED <<dpc, initial_df, session_data, output, controls, cache, refreshed,
                   runVars, limiterVars>>

\* what every callback passes to apply_filters: the session data, the two
\* controls and the sort order 'asc'
CallArgs ==
    [df_json |-> session_data, start_date |-> controls.period.start,
     end_date |-> controls.period.end, sort_by |-> controls.sort_by,
     sort_order |-> "asc"]

\* update_table works on a copy of the table; a callback without session
\* data, or without rows, returns its default
UpdateTable ==
    /\ dpc = "serving"
    /\ IF session_data = <<>>
       THEN output' = NoOutput /\ cache' = cache
       ELSE LET filtered == cached_apply_filters(cache, CallArgs)
            IN  /\ output' = IF filtered = <<>> THEN NoOutput
                              ELSE [callback |-> "update_table",
                                    value |-> update_table(filtered)]
                /\ cache' = Remember(cache, CallArgs, filtered)
    /\ UNCHANGED <<csv, dpc, initial_df, session_data, controls, refreshed, runVars,
                   limiterVars>>

\* update_metrics sets the numeric columns of the table again, to the values
\* they have
UpdateMetrics ==
    /\ dpc = "serving"
    /\ IF session_data = <<>>
       THEN output' = NoOutput /\ cache' = cache
       ELSE LET filtered == cached_apply_filters(cache, CallArgs)
            IN  /\ output' = IF filtered = <<>> THEN NoOutput
                              ELSE [callback |-> "update_metrics",
                                    value |-> update_metrics(filtered)]
                /\ cache' = Remember(cache, CallArgs, filtered)
    /\ UNCHANGED <<csv, dpc, initial_df, session_data, controls, refreshed, runVars,
                   limiterVars>>

\* update_graphs, with update_seasons_comparison: the growth rate becomes a
\* column of the table apply_filters returned
UpdateGraphs ==
    /\ dpc = "serving"
    /\ IF session_data = <<>>
       THEN output' = NoOutput /\ cache' = cache
       ELSE LET filtered == cached_apply_filters(cache, CallArgs)
            IN  /\ output' = IF filtered = <<>> THEN NoOutput
                              ELSE [callback |-> "update_graphs",
                                    value |-> update_graphs(filtered)]
                /\ cache' = Remember(cache, CallArgs, WithGrowthRate(filtered))
    /\ UNCHANGED <<csv, dpc, initial_df, session_data, controls, refreshed, runVars,
                   limiterVars>>

NextDash ==
    \/ ImportarModulo
    \/ CombinedDataCallback
    \/ UpdateTable
    \/ UpdateMetrics
    \/ UpdateGraphs

SpecDash == InitDash /\ [][NextDash]_vars

(***************************************************************************)
(* The refresh alone: the dashboard is started on a short file, and the    *)
(* file changes between the refreshes.                                     *)
(***************************************************************************)
InitRefresh ==
    /\ InitDash
    /\ csv \in Replacements
    /\ controls.sort_by.column = "DataDePublicacao"
    /\ controls.period.start < 0

NextRefresh ==
    \/ ImportarModulo
    \/ TrocarArquivo
    \/ CombinedDataCallback

SpecRefresh == InitRefresh /\ [][NextRefresh]_vars

(***************************************************************************)
(* Vocabulary of the properties.                                           *)
(***************************************************************************)
Last(s) == s[Len(s)]

CeilDiv(n, d) == (n + d - 1) \div d

\* the items of the logged responses, in the order of delivery
LoggedItems(log) == Concat([k \in DOMAIN log |-> log[k].items])

ChunkResponses == [k \in DOMAIN chunkLog |-> chunkLog[k].response]

IsFatal(response) == response.kind = "error" /\ response.status \in {403, 429}

IsTransient(response) == response.kind = "error" /\ response.status \notin {403, 429}

IsEmptyPage(response) == response.kind = "page" /\ response.items = <<>>

\* every page but the last carries items and a token, the last items and no token
WellFormedPages(log) ==
    /\ log # <<>>
    /\ \A k \in DOMAIN log :
          /\ log[k].kind = "page"
          /\ log[k].items # <<>>
          /\ (log[k].nextPageToken # None) <=> (k < Len(log))

Sections == {"snippet", "statistics", "contentDetails"}

\* the record misses one of the three sections, or has it empty
LacksSection(item) == \E k \in Sections : k \notin DOMAIN item \/ DOMAIN item[k] = {}

Counters == {"viewCount", "likeCount", "commentCount"}

RowField(key) == CASE key = "viewCount" -> "visualizacoes"
                   [] key = "likeCount" -> "curtidas"
                   [] OTHER -> "comentarios"

UnusableCount(item, key) ==
    key \notin DOMAIN item.statistics \/ ~ParseInt(item.statistics[key]).ok

UnusableDate(item) ==
    "publishedAt" \notin DOMAIN item.snippet \/ ~Strptime(item.snippet.publishedAt).ok

Epoch == [year |-> 1970, month |-> 1, day |-> 1, hour |-> 0, minute |-> 0, second |-> 0]

RowsOf(v) == {k \in DOMAIN df : df[k].video_id = v}

(***************************************************************************)
(* C1.  When the pages delivered to coletar_videos_playlist all carry      *)
(* items, all but the last carry a token and the last carries none, the    *)
(* function has returned, and what it returned is the concatenation of the *)
(* pages' items in the order of delivery: nothing twice, nothing missing.  *)
(***************************************************************************)
C1_PaginationConcatenates ==
    WellFormedPages(pageLog) =>
        /\ pc = "ids"
        /\ playlist_items = LoggedItems(pageLog)

\* two pages, 50 items with a token then 10 without, and the function returned
C1_Witness ==
    /\ pc = "ids"
    /\ WellFormedPages(pageLog)
    /\ Len(pageLog) = 2
    /\ Len(pageLog[1].items) = 50
    /\ Len(pageLog[2].items) = 10
    /\ Len(playlist_items) = 60

(***************************************************************************)
(* C2.  When obter_detalhes_videos returns, the attempt that returned has  *)
(* issued exactly ceil(N/50) requests, the k-th over ids 50(k-1)+1..50k of *)
(* the input (the last one over what remains), and the list returned is    *)
(* the responses concatenated in the order of the chunks.                  *)
(***************************************************************************)
C2_BatchesOfFifty ==
    pc = "check" =>
        /\ Len(chunkLog) = CeilDiv(Len(video_ids), 50)
        /\ \A k \in DOMAIN chunkLog :
              /\ chunkLog[k].batch =
                    SubSeq(video_ids, 50 * (k - 1) + 1, Min(50 * k, Len(video_ids)))
              /\ Len(chunkLog[k].batch) = IF k < Len(chunkLog) THEN 50
                                          ELSE Len(video_ids) - 50 * (k - 1)
        /\ video_details = LoggedItems(ChunkResponses)

\* 123 ids, requested as 50, 50 and 23
C2_Witness ==
    /\ pc = "check"
    /\ Len(video_ids) = 123
    /\ [k \in DOMAIN chunkLog |-> Len(chunkLog[k].batch)] = <<50, 50, 23>>
    /\ Len(video_details) = 123

(***************************************************************************)
(* C3.  A detail record that misses snippet, statistics or contentDetails  *)
(* (or has it empty) gives no row, and the rows of the batch are the rows  *)
(* the batch without these records gives: the run does not fail over it.   *)
(***************************************************************************)
C3_SkipsIncompleteRecords ==
    dfSet =>
        /\ pc # "failed"
        /\ \A k \in DOMAIN video_details :
              LacksSection(RawDetail(video_details[k])) => RowsOf(video_details[k]) = {}
        /\ df = processar_dados(Records(
                   SelectSeq(video_details, LAMBDA v : ~LacksSection(RawDetail(v)))))

\* a batch of three with an incomplete record between two records that give rows
C3_Witness ==
    /\ dfSet
    /\ Len(video_details) = 3
    /\ LacksSection(RawDetail(video_details[2]))
    /\ Len(df) = 2
    /\ df[1].video_id = video_details[1]
    /\ df[2].video_id = video_details[3]

(***************************************************************************)
(* C4.  In every row of self.df, visualizacoes, curtidas and comentarios   *)
(* are at least 0, whatever the counts of the source are.                  *)
(***************************************************************************)
C4_CountsNeverNegative ==
    \A k \in DOMAIN df :
        df[k].visualizacoes >= 0 /\ df[k].curtidas >= 0 /\ df[k].comentarios >= 0

(***************************************************************************)
(* C5.  A record with its three sections and a usable date, one of whose   *)
(* counts is missing or is no integer, gives a row, and the row holds 0    *)
(* for that count.                                                         *)
(***************************************************************************)
C5_UnusableCountGivesZero ==
    dfSet =>
        \A k \in DOMAIN video_details :
            LET item == RawDetail(video_details[k])
            IN  (~LacksSection(item) /\ ~UnusableDate(item)) =>
                    \A key \in Counters :
                        UnusableCount(item, key) =>
                            /\ RowsOf(item.id) # {}
                            /\ \A r \in RowsOf(item.id) : df[r][RowField(key)] = 0

(***************************************************************************)
(* C6.  A record with its three sections and usable counts, whose          *)
(* publishedAt is absent or does not match YYYY-MM-DDTHH:MM:SSZ, gives a   *)
(* row, and the row's date is 1970-01-01T00:00:00.                         *)
(***************************************************************************)
C6_UnusableDateGivesEpoch ==
    dfSet =>
        \A k \in DOMAIN video_details :
            LET item == RawDetail(video_details[k])
            IN  (/\ ~LacksSection(item)
                 /\ \A key \in Counters : key \in DOMAIN item.statistics
                                          => ParseInt(item.statistics[key]).ok
                 /\ UnusableDate(item)) =>
                    /\ RowsOf(item.id) # {}
                    /\ \A r \in RowsOf(item.id) : df[r].data_publicacao = Epoch

(***************************************************************************)
(* C7.  When the run is done, the file holds as many rows as there are     *)
(* detail records with all of snippet, statistics and contentDetails.      *)
(***************************************************************************)
C7_RowsEqualCompleteRecords ==
    pc = "done" =>
        /\ sink.written
        /\ Len(sink.rows) =
              Cardinality({k \in DOMAIN video_details :
                              ~LacksSection(RawDetail(video_details[k]))})

(***************************************************************************)
(* C8.  When the last page request of coletar_videos_playlist failed with  *)
(* anything but a 403 or 429, the function has returned (it raised         *)
(* nothing and requests no further page), and what it returned is the      *)
(* items of the pages it collected before the failure.                     *)
(***************************************************************************)
C8_TransientErrorReturnsPartial ==
    (pageLog # <<>> /\ IsTransient(Last(pageLog))) =>
        /\ pc = "ids"
        /\ playlist_items = LoggedItems(SubSeq(pageLog, 1, Len(pageLog) - 1))

\* two pages collected, the third request fails with a transient error
C8_Witness ==
    /\ pc = "ids"
    /\ Len(pageLog) = 3
    /\ IsTransient(pageLog[3])
    /\ pageLog[1].items # <<>> /\ pageLog[2].items # <<>>
    /\ playlist_items = pageLog[1].items \o pageLog[2].items

(***************************************************************************)
(* C9.  A chunk whose response is empty or whose request fails with        *)
(* anything but a 403 or 429 is skipped and nothing else: the loop goes on *)
(* to the next chunk, and when the function returns it has requested every *)
(* chunk and returns the details of all the other chunks.                  *)
(***************************************************************************)
C9_SkipsOnlyTheFailedChunk ==
    (\E k \in DOMAIN chunkLog :
        IsTransient(chunkLog[k].response) \/ IsEmptyPage(chunkLog[k].response)) =>
        /\ pc \in {"details", "check", "details_wait", "failed"}
        /\ pc \in {"details_wait", "failed"} => IsFatal(Last(chunkLog).response)
        /\ pc = "details" => /\ i = 50 * Len(chunkLog)
                             /\ i < Len(video_ids)
                             /\ details = LoggedItems(ChunkResponses)
        /\ pc = "check" => /\ 50 * Len(chunkLog) >= Len(video_ids)
                           /\ video_details = LoggedItems(ChunkResponses)

\* of three chunks the first fails with a transient error, the second comes
\* back empty, and the details of the third are returned
C9_Witness ==
    /\ pc = "check"
    /\ Len(chunkLog) = 3
    /\ IsTransient(chunkLog[1].response)
    /\ IsEmptyPage(chunkLog[2].response)
    /\ chunkLog[3].response.items # <<>>
    /\ video_details = chunkLog[3].response.items

(***************************************************************************)
(* C10, as stated.  A 403 or 429 on any page request or chunk request      *)
(* makes the operation fail for main: an operation that returns a list to  *)
(* main has met no 403 or 429.  (The retry guard calls the function again  *)
(* only after a raise, so a second or third attempt has met one.)          *)
(***************************************************************************)
C10_FatalErrorFailsTheOperation ==
    pc \in {"ids", "check"} => attempt = 1

(***************************************************************************)
(* C10, amended.  A 403 or 429 aborts the attempt in progress: the         *)
(* function raises and returns no list, partial or not.  The retry guard   *)
(* then calls the function again, and main sees a failure once the third   *)
(* attempt has raised.  A list returned to main comes whole from one       *)
(* attempt that met no 403 or 429.                                         *)
(***************************************************************************)
C10_FatalErrorAbortsTheAttempt ==
    /\ (pageLog # <<>> /\ IsFatal(Last(pageLog))) =>
          /\ pc = IF attempt < 3 THEN "fetch_wait" ELSE "failed"
          /\ playlist_items = <<>>
    /\ (chunkLog # <<>> /\ IsFatal(Last(chunkLog).response)) =>
          /\ pc = IF attempt < 3 THEN "details_wait" ELSE "failed"
          /\ video_details = <<>>
    /\ pc = "ids" => /\ \A k \in DOMAIN pageLog : ~IsFatal(pageLog[k])
                     /\ playlist_items = LoggedItems(pageLog)
    /\ pc = "check" => /\ \A k \in DOMAIN chunkLog : ~IsFatal(chunkLog[k].response)
                       /\ video_details = LoggedItems(ChunkResponses)

\* the third attempt collects a page and then meets a 403: the run has failed
\* and main holds no list
C10_Witness ==
    /\ pc = "failed"
    /\ attempt = 3
    /\ Len(pageLog) = 2
    /\ pageLog[1].items # <<>>
    /\ pageLog[2].kind = "error" /\ pageLog[2].status = 403
    /\ videos = pageLog[1].items
    /\ playlist_items = <<>>

(***************************************************************************)
(* C11, as stated.  An auth/quota error in any stage ends the run in       *)
(* failure and salvar_dados is never invoked.  Checked on the detail       *)
(* stage: obter_detalhes_videos is attempted a second time only after a    *)
(* 403 or 429, so once its attempt number exceeds 1 the run has met one,   *)
(* and then the run does not reach done nor write the sink.                *)
(***************************************************************************)
C11_FatalErrorFailsTheRun ==
    (attempt > 1 /\ pc \in {"details", "details_wait", "check", "process", "save",
                            "done", "returned"}) =>
        /\ pc # "done"
        /\ ~sink.written

(***************************************************************************)
(* C11, amended.  The run ends in failure exactly when a guarded call has  *)
(* raised on its third attempt: build() failing in _inicializar_servico, a *)
(* 403 or 429 in coletar_videos_playlist or in obter_detalhes_videos.  A   *)
(* failed run has not invoked salvar_dados, so the sink is as it was; a    *)
(* 403 or 429 met by an earlier attempt is retried.                        *)
(***************************************************************************)
\* initLog runs over the attempts: its entry number `attempt` is this attempt's
RaisedInInit == initLog # <<>> /\ Len(initLog) = attempt /\ Last(initLog) # 200

RaisedInFetch == pageLog # <<>> /\ IsFatal(Last(pageLog))

RaisedInDetails == chunkLog # <<>> /\ IsFatal(Last(chunkLog).response)

C11_ThirdRaiseFailsTheRun ==
    /\ (attempt = MaxAttempts /\ (RaisedInInit \/ RaisedInFetch \/ RaisedInDetails))
          => pc = "failed"
    /\ (pc = "failed" /\ apiKey /\ playlistId) =>
          /\ attempt = MaxAttempts
          /\ RaisedInInit \/ RaisedInFetch \/ RaisedInDetails
    /\ pc = "failed" => sink = NoFile
    /\ sink.written => pc = "done"

\* the third attempt of obter_detalhes_videos meets a 403 or 429 after the
\* fetch returned items: the run has failed and the sink is untouched
C11_Witness ==
    /\ pc = "failed"
    /\ playlist_items # <<>>
    /\ attempt = MaxAttempts
    /\ RaisedInDetails
    /\ sink = NoFile

(***************************************************************************)
(* C12, as stated.  A fetch that a transient error cut short after at      *)
(* least one item was collected is followed by the rest of the run, which  *)
(* never fails.                                                            *)
(***************************************************************************)
PartialFetch ==
    /\ pc = "ids"
    /\ pageLog # <<>> /\ IsTransient(Last(pageLog))
    /\ playlist_items # <<>>

C12_PartialFetchNeverFails ==
    (partial /\ playlist_items # <<>>) => pc # "failed"

\* the ids main extracts: those of the items that carry a resourceId
IdsOfItems(items) ==
    LET carrying == SelectSeq(items,
                       LAMBDA p : "resourceId" \in DOMAIN PlaylistItem(p).snippet)
    IN  [k \in DOMAIN carrying |->
            PlaylistItem(carrying[k]).snippet.resourceId.videoId]

(***************************************************************************)
(* C12, amended.  A partial fetch is not a failure: main's next step is    *)
(* the extraction of the ids of the collected items, and it enters the     *)
(* detail stage with them (or returns early when no item carries an id),   *)
(* as after a complete fetch.  From there the run fails only when          *)
(* obter_detalhes_videos has raised a 403 or 429 on its third attempt.     *)
(***************************************************************************)
C12_PartialFetchProceeds ==
    /\ [][PartialFetch =>
            /\ video_ids' = IdsOfItems(playlist_items)
            /\ pc' = IF video_ids' = <<>> THEN "returned" ELSE "details"
            /\ attempt' = 1
            /\ playlist_items' = playlist_items
            /\ sink' = sink]_vars
    /\ []((pc = "failed" /\ video_ids # <<>>) =>
            (attempt = MaxAttempts /\ RaisedInDetails))

\* a page of 50 items, then a transient error: the fetch returned the 50
C12_Witness ==
    /\ PartialFetch
    /\ Len(pageLog) = 2
    /\ Len(playlist_items) = 50
    /\ IsTransient(pageLog[2])

(***************************************************************************)
(* C13, as stated.  A guarded call that fails with a transient error, with *)
(* attempts left, is attempted again: the guard waits and then retries,    *)
(* be the call a page request, a chunk request or the service              *)
(* initialization.                                                         *)
(***************************************************************************)
C13_TransientFailureIsRetried ==
    attempt < MaxAttempts =>
        /\ (pageLog # <<>> /\ IsTransient(Last(pageLog))) => pc = "fetch_wait"
        /\ (chunkLog # <<>> /\ IsTransient(Last(chunkLog).response)) =>
              pc = "details_wait"
        /\ (RaisedInInit /\ Last(initLog) \notin FatalStatus) => pc = "init_wait"

(***************************************************************************)
(* C13, amended.  The guard retries a method, not a request, and only when *)
(* the method raises.  _inicializar_servico raises on every error: when    *)
(* build() fails twice and succeeds on the third attempt the service is    *)
(* returned.  The two fetching methods raise on a 403 or 429 only; a       *)
(* transient error on a page or chunk request is not retried (the          *)
(* pagination ends with what was collected, the chunk is skipped).  No     *)
(* method is attempted more than 3 times.                                  *)
(***************************************************************************)
C13_GuardRetriesTheRaisingMethod ==
    /\ attempt \in 0..MaxAttempts
    /\ Len(initLog) <= MaxAttempts
    /\ pc = "construct" =>
          /\ Len(initLog) = attempt
          /\ initLog[attempt] = 200
          /\ \A k \in 1..(attempt - 1) : initLog[k] # 200
    /\ pc = "init_wait" => (RaisedInInit /\ attempt < MaxAttempts)
    /\ pc = "fetch_wait" => (RaisedInFetch /\ attempt < MaxAttempts)
    /\ pc = "details_wait" => (RaisedInDetails /\ attempt < MaxAttempts)
    /\ (pageLog # <<>> /\ IsTransient(Last(pageLog))) => pc = "ids"
    /\ (chunkLog # <<>> /\ IsTransient(Last(chunkLog).response)) =>
          pc \in {"details", "check"}

\* build() fails twice with a server error and succeeds on the third attempt
C13_Witness ==
    /\ pc = "construct"
    /\ attempt = 3
    /\ initLog = <<500, 500, 200>>

(***************************************************************************)
(* C14.  Of the invocations of a rate-guarded method that a caller starts  *)
(* within one window of its limiter, the first 7 are admitted without      *)
(* waiting and the 8th is held back until the window rolls over, 60        *)
(* seconds after it began; so no invocation before the 8th ever waits.     *)
(* Every invocation is executed, none is dropped.                          *)
(***************************************************************************)
C14_EighthCallWaitsForTheWindow ==
    call.invoked > 0 =>
        LET open == call.started - call.window < RATE_PERIOD
        IN  /\ call.executed = call.invoked
            /\ (open /\ call.before < CALLS) => call.admitted = call.started
            /\ (open /\ call.before >= CALLS) =>
                  /\ call.admitted = call.window + RATE_PERIOD
                  /\ call.admitted > call.started
            /\ ~open => call.admitted = call.started
            /\ call.firstSlept # 0 => call.firstSlept > CALLS
            /\ num_calls \in 1..CALLS

\* ten invocations started within a minute: the 8th was the first to wait, it
\* was admitted when the window rolled over, and all ten were executed
C14_Witness ==
    /\ call.invoked = 10
    /\ call.executed = 10
    /\ call.firstSlept = 8
    /\ call.started >= RATE_PERIOD
    /\ last_reset = RATE_PERIOD
    /\ num_calls = 3

(***************************************************************************)
(* C15.  Every page request passes through the limiter, so no more than 7  *)
(* requests are issued in any 60-second window: in particular the requests *)
(* that one invocation issues in less than 60 seconds, from its admission  *)
(* to its end, are at most 7.                                              *)
(***************************************************************************)
C15_RequestsAreRateLimited ==
    (call.invoked > 0 /\ call.finished - call.admitted < RATE_PERIOD) =>
        call.requests <= CALLS

(***************************************************************************)
(* C16.  salvar_dados does not write the sink when the table has no rows:  *)
(* after it has run on an empty table the file is as it was.               *)
(***************************************************************************)
C16_EmptyTableIsNotWritten ==
    (pc = "done" /\ df = <<>>) => sink = NoFile

(***************************************************************************)
(* C17.  No two rows of the table, and so of the sink file, carry the same *)
(* video_id.                                                               *)
(***************************************************************************)
UniqueIds(rows) ==
    \A j, k \in DOMAIN rows : rows[j].video_id = rows[k].video_id => j = k

C17_VideoIdsAreUnique ==
    UniqueIds(df) /\ UniqueIds(sink.rows)

(***************************************************************************)
(* C18.  Wherever the dashboard computes a ratio over the views, a video   *)
(* with 0 views gets the value 0, not NaN and not an infinity: in the      *)
(* columns load_data derives, in the rate update_table computes, in the    *)
(* average of update_metrics (0 when no listed video has a view) and in    *)
(* the growth rate of update_graphs.                                       *)
(***************************************************************************)
IsZero(x) == x.kind = "num" /\ x.num = 0

ZeroViewsGiveZero(rows, columns) ==
    \A k \in DOMAIN rows : rows[k].Visualizacoes = 0 =>
        \A column \in columns : IsZero(rows[k][column])

LoadedColumns == {"TaxaDeEngajamento", "ProporcaoCurtidas", "ProporcaoComentarios"}

C18_InLoadData ==
    /\ ZeroViewsGiveZero(initial_df, LoadedColumns)
    /\ ZeroViewsGiveZero(session_data, LoadedColumns)

C18_InUpdateTable ==
    output.callback = "update_table" =>
        ZeroViewsGiveZero(output.value, {"TaxaDeEngajamento"})

C18_InUpdateMetrics ==
    (output.callback = "update_metrics" /\ output.value.total_views = 0) =>
        IsZero(output.value.avg_engagement)

C18_InUpdateGraphs ==
    output.callback = "update_graphs" =>
        ZeroViewsGiveZero(output.value, {"TaxaDeCrescimento"})

C18_ZeroViewsGiveZeroEverywhere ==
    /\ C18_InLoadData
    /\ C18_InUpdateTable
    /\ C18_InUpdateMetrics
    /\ C18_InUpdateGraphs

(***************************************************************************)
(* C19.  The engagement rate that safe_engagement_rate gives a loaded row  *)
(* is 0 when the row has 0 views, whatever its likes and comments, and     *)
(* otherwise (likes + comments) / views * 100 rounded to two decimals: a   *)
(* number of hundredths at most half a hundredth away from the quotient.   *)
(***************************************************************************)
Abs(n) == IF n < 0 THEN 0 - n ELSE n

IsEngagementRate(rate, row) ==
    /\ rate.kind = "num"
    /\ row.Visualizacoes = 0 => rate.num = 0
    /\ row.Visualizacoes > 0 =>
          /\ rate.den = 100
          /\ 2 * Abs(rate.num * row.Visualizacoes
                     - (row.Curtidas + row.Comentarios) * 10000)
                <= row.Visualizacoes

C19_EngagementRate ==
    /\ \A k \in DOMAIN initial_df :
          IsEngagementRate(initial_df[k].TaxaDeEngajamento, initial_df[k])
    /\ \A k \in DOMAIN session_data :
          IsEngagementRate(session_data[k].TaxaDeEngajamento, session_data[k])

\* a video without views but with a like has rate 0; one with 3 views, 1 like
\* and 4 comments has rate 166.67
C19_Witness ==
    /\ Len(session_data) = 2
    /\ session_data[1].Visualizacoes = 0 /\ session_data[1].Curtidas = 1
    /\ session_data[1].TaxaDeEngajamento = Float(0, 1)
    /\ session_data[2].Visualizacoes = 3 /\ session_data[2].Curtidas = 1
    /\ session_data[2].Comentarios = 4
    /\ session_data[2].TaxaDeEngajamento = Float(16667, 100)

(***************************************************************************)
(* C20.  Every row load_data returns has at least 1 day since publication: *)
(* the whole days from the publication to the instant of loading, and 1    *)
(* when that is less, as for a row published at that instant or later.     *)
(***************************************************************************)
IsDaysSince(days, published) ==
    /\ days >= 1
    /\ \E hoje \in Instants :
          days = IF Days(hoje - published) > 1 THEN Days(hoje - published) ELSE 1
    /\ published >= Base => days = 1

C20_AtLeastOneDay ==
    /\ \A k \in DOMAIN initial_df :
          IsDaysSince(initial_df[k].DiasDesdePublicacao,
                      initial_df[k].DataDePublicacao)
    /\ \A k \in DOMAIN session_data :
          IsDaysSince(session_data[k].DiasDesdePublicacao,
                      session_data[k].DataDePublicacao)

\* a video published at the instant of loading and one that is dated three
\* days later both count 1 day
C20_Witness ==
    /\ Len(initial_df) = 2
    /\ initial_df[1].DataDePublicacao = Base
    /\ initial_df[1].DiasDesdePublicacao = 1
    /\ initial_df[2].DataDePublicacao = Base + 3 * 86400
    /\ initial_df[2].DiasDesdePublicacao = 1

(***************************************************************************)
(* C21.  The tags of a row of self.df are never the empty string: a record *)
(* without tags, or with an empty list of tags, gives "N/A", and any other *)
(* record gives its tags joined with commas.                               *)
(***************************************************************************)
C21_TagsNeverEmpty ==
    \A k \in DOMAIN df : df[k].tags # <<>>

(***************************************************************************)
(* C22.  When the API key or the playlist identifier is not set, the run   *)
(* fails at the start: it goes from the load of the module to the failure, *)
(* and no build of the service, no page request and no chunk request is    *)
(* ever made.                                                              *)
(***************************************************************************)
NoNetworkCall ==
    /\ initLog = <<>>
    /\ pageLog = <<>>
    /\ page_count = 0
    /\ chunkLog = <<>>

C22_MissingConfigFailsBeforeAnyCall ==
    ~(apiKey /\ playlistId) =>
        /\ pc \in {"load", "failed"}
        /\ NoNetworkCall
        /\ ~sink.written

C22_Witness ==
    /\ apiKey
    /\ ~playlistId
    /\ pc = "failed"
    /\ NoNetworkCall

(***************************************************************************)
(* C23.  A file that is missing, that has no rows, or whose dates cannot   *)
(* be parsed never ends the dashboard: at the import of the module and at  *)
(* every refresh it goes on, showing an empty view.                        *)
(***************************************************************************)
C23_UnreadableFileIsRecoverable ==
    dpc # "crashed"

(***************************************************************************)
(* C24.  The table a callback gets from apply_filters is ordered as the    *)
(* selected sort option says: by the column it names, descending for an    *)
(* option ending in "_desc" and ascending for one ending in "_asc".        *)
(***************************************************************************)
IsOrdered(rows, sort_by) ==
    \A a, b \in DOMAIN rows :
        a < b =>
            IF sort_by.suffix = "_desc"
            THEN SortKey(rows[a], sort_by.column) >= SortKey(rows[b], sort_by.column)
            ELSE SortKey(rows[a], sort_by.column) <= SortKey(rows[b], sort_by.column)

C24_SortOptionOrdersTheTable ==
    \A entry \in cache : IsOrdered(entry.table, entry.args.sort_by)

(***************************************************************************)
(* C25.  coletar_videos_playlist ends for every finite playlist, and its   *)
(* loop ends at the first response that has no items, that has no token or *)
(* that is a failure.  As stated, no page is requested once such a         *)
(* response has come: an attempt that follows a failed one would request   *)
(* nothing.                                                                *)
(***************************************************************************)
EndsTheLoop(response) ==
    \/ response.kind = "error"
    \/ response.items = <<>>
    \/ response.nextPageToken = None

C25_NoPageAfterAFailure ==
    (pc \in {"fetch", "fetch_wait", "ids"} /\ attempt > 1) => pageLog = <<>>

(***************************************************************************)
(* C25, amended.  Each attempt of coletar_videos_playlist requests at most *)
(* as many pages as the playlist has, ends at the first response that has  *)
(* no items, that has no token or that is a failure, and requests no page  *)
(* after it; a 403 or 429 makes the retry guard start a new attempt from   *)
(* the first page, and there are at most three attempts.                   *)
(***************************************************************************)
C25_EachAttemptEndsAtTheFirstEnd ==
    /\ page_count = Len(pageLog)
    /\ page_count <= MaxPages
    /\ attempt <= MaxAttempts
    /\ \A k \in DOMAIN pageLog : EndsTheLoop(pageLog[k]) => k = Len(pageLog)
    /\ pc = "fetch" => \A k \in DOMAIN pageLog : ~EndsTheLoop(pageLog[k])
    /\ pc = "fetch_wait" => IsFatal(Last(pageLog))

\* the second attempt, after a failed first one, has got a page with a token
\* and then a response without items, and has returned the one page
C25_Witness ==
    /\ pc = "ids"
    /\ attempt = 2
    /\ Len(pageLog) = 2
    /\ ~EndsTheLoop(pageLog[1])
    /\ IsEmptyPage(pageLog[2])
    /\ playlist_items = pageLog[1].items

(***************************************************************************)
(* C26.  When a stage of main leaves nothing (no playlist items, no video  *)
(* id, no detail record, no row), main returns there: it raises nothing,   *)
(* no later stage runs, and the sink file is not written.                  *)
(***************************************************************************)
C26_EmptyStageEndsTheRunQuietly ==
    /\ pc \in {"details", "details_wait", "check"} =>
          playlist_items # <<>> /\ video_ids # <<>>
    /\ pc = "process" => video_details # <<>>
    /\ pc \in {"save", "done"} => df # <<>>
    /\ pc = "returned" =>
          /\ sink = NoFile
          /\ \/ playlist_items = <<>>
             \/ video_ids = <<>>
             \/ video_details = <<>>
             \/ dfSet /\ df = <<>>
    /\ pc = "failed" =>
          \/ ~(apiKey /\ playlistId)
          \/ RaisedInInit \/ RaisedInFetch \/ RaisedInDetails
    /\ sink.written => df # <<>>

\* the one detail record obtained has no statistics and gives no row: main
\* has returned and the file is as it was
C26_WitnessNoRow ==
    /\ pc = "returned"
    /\ video_details = <<Bare>>
    /\ dfSet
    /\ df = <<>>
    /\ sink = NoFile

(***************************************************************************)
(* C27.  Every row of the file main writes was published in 2023 or 2024:  *)
(* the rows written are those that pass main's filter, and a row of        *)
(* another year, such as one dated by the 1970 fallback, is not written.   *)
(***************************************************************************)
FilterYears == {2023, 2024}

C27_OnlyFilteredRowsAreWritten ==
    sink.written =>
        \A k \in DOMAIN sink.rows : sink.rows[k].data_publicacao.year \in FilterYears

(***************************************************************************)
(* C28.  No callback changes a table that apply_filters has memoized: the  *)
(* table kept for some arguments has the columns and the values that       *)
(* apply_filters computes for them, whichever callbacks have worked on it. *)
(***************************************************************************)
C28_MemoizedTableIsNeverModified ==
    \A entry \in cache :
        entry.table = apply_filters(entry.args.df_json, entry.args.start_date,
                                    entry.args.end_date, entry.args.sort_by,
                                    entry.args.sort_order)

(***************************************************************************)
(* C29.  An attempt of coletar_videos_playlist that follows a failed one   *)
(* starts with no items: what it holds, and what it returns, is the items  *)
(* of the pages delivered to it, each page once, and nothing that a failed *)
(* attempt had collected.                                                  *)
(***************************************************************************)
C29_FailedAttemptLeavesNothingBehind ==
    /\ pc = "fetch" => videos = LoggedItems(pageLog)
    /\ pc = "ids" =>
          /\ playlist_items = LoggedItems(pageLog)
          /\ Len(playlist_items) <= MaxPages * ChunkSize
          /\ \A a, b \in DOMAIN playlist_items :
                playlist_items[a] = playlist_items[b] => a = b

\* an attempt held items when it met a 403 or 429; the second attempt got a
\* page of 50 and a page of 10 and returned these 60 items
C29_Witness ==
    /\ pc = "ids"
    /\ dropped
    /\ attempt = 2
    /\ Len(pageLog) = 2
    /\ Len(playlist_items) = 60
    /\ playlist_items = pageLog[1].items \o pageLog[2].items

(***************************************************************************)
(* C30.  A refresh during which load_data fails (the file is missing, has  *)
(* no row, or has no row with a date) leaves the session data as it was:   *)
(* data that the session holds is never replaced by an empty value.        *)
(***************************************************************************)
LoadFails == \A hoje \in Instants : load_data(csv, hoje).raised

C30_FailedRefreshKeepsTheData ==
    [][/\ (refreshed' = "kept" /\ csv' = csv) => (LoadFails /\ session_data' = session_data)
       /\ (LoadFails /\ csv' = csv) => session_data' = session_data
       /\ session_data # <<>> => session_data' # <<>>]_vars

\* the file was removed after the session had loaded a row, and the refresh
\* that followed kept the row
C30_Witness ==
    /\ csv = MissingFile
    /\ refreshed = "kept"
    /\ Len(session_data) = 1
    /\ session_data[1].Visualizacoes = 800

====
